---- MODULE Spec2Model ----
(***************************************************************************)
(* Real-time propagation layer of the disaster-response application:       *)
(*   - the socket.io event bus and room registry of backend/app.js,        *)
(*   - the React client (App component): REST calls with endpoint          *)
(*     fallback, the socket effect with its fallback timer, and the        *)
(*     reconciliation of socket events into local state.                   *)
(***************************************************************************)
EXTENDS Integers, Sequences, FiniteSets, TLC

\* ------------------------------------------------------------------------
\* Bounds of the model
\* ------------------------------------------------------------------------
MaxPublishes == 2
MaxCalls == 2
MaxNotifs == 3
MaxList == 2
MaxClock == 1
MaxServerClock == 3
MaxPuts == 2

\* ------------------------------------------------------------------------
\* Universe
\* ------------------------------------------------------------------------
Conns == {"c1", "c2"}
Disasters == {"d1", "d2"}
NoDisaster == "none"

VARIABLES
  \* ---- server (backend/app.js) ----
  connState,      \* socket -> "new" | "live" | "closed"
  rooms,          \* socket -> [disaster -> number of memberships in room disaster_<id>]
  inbox,          \* socket -> sequence of events written to that socket
  published,      \* every event emitted so far, in emit order
  dbDisasters,    \* ids of the rows of table disasters (status active)
  updPc,          \* position of updateActiveDisasters
  updTodo,        \* disasters the running updateActiveDisasters has still to visit
  dbOwner,        \* disaster -> owner_id of its row ("none": no row)
  initialFetch,   \* disasters whose initial data fetch (setTimeout of POST /disasters) is due
  dbRows,         \* disaster -> [edits, audit_trail] of its row (NoRow: no row)
  putReqs,        \* PUT /disasters/:id request -> [pc, id, user, current (the trail it read)]
  rateLimitStore, \* client IP -> timestamps of its admitted requests (the Map of rateLimit)
  serverNow,      \* the reading of Date.now() on the server
  admitted,       \* history: client IP -> timestamps of every request admitted
  lastRate,       \* history: the request rateLimit handled last: [ip, status, at]
  joinCount,      \* history: join_disaster messages handled since the last leave
  lastHttp,       \* history: the outputs of the HTTP handler that ran last, in order
  lastUser,       \* history: req.user.id of that handler run
  lastHeader      \* history: the x-user-id header of that request

serverVars == <<connState, rooms, inbox, published, dbDisasters, updPc, updTodo>>
httpVars == <<dbOwner, initialFetch, dbRows>>
histVars == <<joinCount, lastHttp, lastUser, lastHeader>>
rateVars == <<rateLimitStore, serverNow, admitted, lastRate>>


\* ------------------------------------------------------------------------
\* Event bus helpers
\* ------------------------------------------------------------------------
Min(a, b) == IF a < b THEN a ELSE b

Repeat(e, n) == [i \in 1..n |-> e]

\* The event kinds that carry a disaster_id and are meant for one disaster.
ScopedKinds == {"report_created", "social_media_updated",
                "official_updates_updated", "emergency_alert"}

Event(kind, action, d) ==
  [kind |-> kind, action |-> action, disaster_id |-> d, n |-> Len(published) + 1]

\* io.emit(...): one copy to every socket of the namespace.
IoEmitCopies(c) == IF connState[c] = "live" THEN 1 ELSE 0

\* io.to(`disaster_${d}`).emit(...): the sockets registered in the room.
IoToCopies(c, d) == IF connState[c] = "live" THEN rooms[c][d] ELSE 0

\* Broadcast: write the packet to every connected socket.
IoEmit(ev) ==
  /\ inbox' = [c \in Conns |-> inbox[c] \o Repeat(ev, IoEmitCopies(c))]
  /\ published' = Append(published, ev)

\* Fault variant of IoTo: the packet overtakes the ones already written.
IoToOvertaking(d, ev) ==
  /\ inbox' = [c \in Conns |-> Repeat(ev, IoToCopies(c, d)) \o inbox[c]]
  /\ published' = Append(published, ev)

\* Room emit: write the packet to the members of room disaster_<d>.
IoTo(d, ev) ==
  /\ inbox' = [c \in Conns |-> inbox[c] \o Repeat(ev, IoToCopies(c, d))]
  /\ published' = Append(published, ev)

CanPublish == Len(published) < MaxPublishes

\* ------------------------------------------------------------------------
\* Socket lifecycle (io.on('connection'))
\* ------------------------------------------------------------------------
Connect(c) ==
  /\ connState[c] = "new"
  /\ connState' = [connState EXCEPT ![c] = "live"]
  /\ UNCHANGED <<rooms, inbox, published, dbDisasters, updPc, updTodo>>

\* Fault variant of JoinDisaster: every join adds one more membership.
JoinDisasterCounting(c, d) ==
  /\ connState[c] = "live"
  /\ rooms' = [rooms EXCEPT ![c][d] = IF @ < 2 THEN @ + 1 ELSE @]
  /\ UNCHANGED <<connState, inbox, published, dbDisasters, updPc, updTodo>>

\* socket.join adds the room to a Set: a second join of the same room adds nothing.
JoinDisaster(c, d) ==
  /\ connState[c] = "live"
  /\ rooms' = [rooms EXCEPT ![c][d] = IF @ > 0 THEN @ ELSE 1]
  /\ UNCHANGED <<connState, inbox, published, dbDisasters, updPc, updTodo>>

\* socket.leave deletes the room from the Set.
LeaveDisaster(c, d) ==
  /\ connState[c] = "live"
  /\ rooms' = [rooms EXCEPT ![c][d] = IF @ > 0 THEN @ - 1 ELSE 0]
  /\ UNCHANGED <<connState, inbox, published, dbDisasters, updPc, updTodo>>

\* Fault variant of Disconnect: the memberships outlive the socket.
DisconnectKeepsRooms(c) ==
  /\ connState[c] = "live"
  /\ connState' = [connState EXCEPT ![c] = "closed"]
  /\ UNCHANGED <<rooms, inbox, published, dbDisasters, updPc, updTodo>>

\* Teardown: socket.io removes the socket from the namespace and from all its
\* rooms, then runs the 'disconnect' handler, which only logs.
Disconnect(c) ==
  /\ connState[c] = "live"
  /\ connState' = [connState EXCEPT ![c] = "closed"]
  /\ rooms' = [rooms EXCEPT ![c] = [d \in Disasters |-> 0]]
  /\ UNCHANGED <<inbox, published, dbDisasters, updPc, updTodo>>

\* socket.on('emergency_alert'): room emit when data.disaster_id is set,
\* broadcast otherwise.
EmergencyAlert(c, d) ==
  /\ connState[c] = "live"
  /\ CanPublish
  /\ IF d # NoDisaster
       THEN IoTo(d, Event("emergency_alert", "none", d))
       ELSE IoEmit(Event("emergency_alert", "none", NoDisaster))
  /\ UNCHANGED <<connState, rooms, dbDisasters, updPc, updTodo>>

\* app.post('/reports'): insert the report, then io.emit('report_created').
\* A store error skips the emit (catch -> 500).
PostReports(d, stored) ==
  /\ CanPublish
  /\ IF stored
       THEN IoEmit(Event("report_created", "none", d))
       ELSE UNCHANGED <<inbox, published>>
  /\ UNCHANGED <<connState, rooms, dbDisasters, updPc, updTodo>>

\* app.get('/disasters/:id/social-media'): fetchSocialMedia, then
\* io.emit('social_media_updated'). A fetch error skips the emit.
GetSocialMedia(d, fetched) ==
  /\ CanPublish
  /\ IF fetched
       THEN IoEmit(Event("social_media_updated", "none", d))
       ELSE UNCHANGED <<inbox, published>>
  /\ UNCHANGED <<connState, rooms, dbDisasters, updPc, updTodo>>

\* ------------------------------------------------------------------------
\* rateLimit
\* ------------------------------------------------------------------------
Ips == {"ip1", "ip2"}

\* RATE_LIMIT_WINDOW_MS and RATE_LIMIT_MAX_REQUESTS, read from the environment.
WindowMs == 2
MaxRequests == 2

\* requests = rateLimitStore.get(clientIp).filter(time => time > windowStart)
InWindow(times, t) == SelectSeq(times, LAMBDA time : time > t - WindowMs)

\* Fault variant of RateLimit: the test is requests.length > maxRequests.
RateLimitOffByOne(ip) ==
  IF Len(InWindow(rateLimitStore[ip], serverNow)) > MaxRequests
    THEN UNCHANGED rateLimitStore
    ELSE rateLimitStore' =
           [rateLimitStore EXCEPT ![ip] = Append(InWindow(@, serverNow), serverNow)]

\* rateLimit(req): 429 when the window holds maxRequests timestamps, and the
\* Map is left as it was; otherwise the filtered list plus now is stored.
RateLimit(ip) ==
  IF Len(InWindow(rateLimitStore[ip], serverNow)) >= MaxRequests
    THEN UNCHANGED rateLimitStore
    ELSE rateLimitStore' =
           [rateLimitStore EXCEPT ![ip] = Append(InWindow(@, serverNow), serverNow)]

\* A millisecond passes on the server.
ServerTick ==
  /\ serverNow < MaxServerClock
  /\ serverNow' = serverNow + 1
  /\ UNCHANGED rateLimitStore

\* ------------------------------------------------------------------------
\* Mutating endpoints
\* ------------------------------------------------------------------------
Users == {"netrunnerX", "reliefAdmin", "citizen1"}
Role(u) == IF u = "citizen1" THEN "contributor" ELSE "admin"

\* What a request may carry as x-user-id: a registered id, nothing (""), or an
\* id that is not registered.
Headers == Users \cup {"", "mallory"}

\* auth: userId = header || 'netrunnerX'; req.user = users[userId] || users.netrunnerX
Auth(header) ==
  LET userId == IF header = "" THEN "netrunnerX" ELSE header
  IN  IF userId \in Users THEN userId ELSE "netrunnerX"

\* The permission test of PUT and DELETE: the owner of the row, or an admin.
MayChange(d, u) == dbOwner[d] = u \/ Role(u) = "admin"

\* The columns of a row that the update endpoints write: edits counts the
\* updates applied to the row, audit_trail is the column of that name.
NoRow == [edits |-> 0, audit_trail |-> << >>]
AuditEntry(action, u) == [action |-> action, user_id |-> u]
NewRow(u) == [edits |-> 0, audit_trail |-> <<AuditEntry("create", u)>>]

\* Fault variant of PostDisasters: the event goes to the room of the disaster.
PostDisastersToRoom(d, u, stored) ==
  /\ d \notin dbDisasters
  /\ CanPublish
  /\ IF stored
       THEN /\ dbDisasters' = dbDisasters \cup {d}
            /\ dbOwner' = [dbOwner EXCEPT ![d] = u]
            /\ dbRows' = [dbRows EXCEPT ![d] = NewRow(u)]
            /\ IoTo(d, Event("disaster_updated", "create", d))
            /\ initialFetch' = initialFetch \cup {d}
       ELSE UNCHANGED <<dbDisasters, dbOwner, dbRows, inbox, published, initialFetch>>
  /\ UNCHANGED <<connState, rooms, updPc, updTodo>>

\* app.post('/disasters'): insert the row, io.emit('disaster_updated' create),
\* schedule the initial data fetch, answer 201. An insert error answers 500.
PostDisasters(d, u, stored) ==
  /\ d \notin dbDisasters
  /\ CanPublish
  /\ IF stored
       THEN /\ dbDisasters' = dbDisasters \cup {d}
            /\ dbOwner' = [dbOwner EXCEPT ![d] = u]
            /\ dbRows' = [dbRows EXCEPT ![d] = NewRow(u)]
            /\ IoEmit(Event("disaster_updated", "create", d))
            /\ initialFetch' = initialFetch \cup {d}
       ELSE UNCHANGED <<dbDisasters, dbOwner, dbRows, inbox, published, initialFetch>>
  /\ UNCHANGED <<connState, rooms, updPc, updTodo>>

\* The callback scheduled by POST /disasters: both fetches, then
\* io.emit('disaster_data_updated'); a throw is logged.
InitialDataFetch(d, fetched) ==
  /\ d \in initialFetch
  /\ initialFetch' = initialFetch \ {d}
  /\ IF fetched
       THEN CanPublish /\ IoEmit(Event("disaster_data_updated", "none", d))
       ELSE UNCHANGED <<inbox, published>>
  /\ UNCHANGED <<connState, rooms, dbDisasters, dbOwner, dbRows, updPc, updTodo>>

\* app.put('/disasters/:id'): 403 unless owner or admin; update ... .single()
\* fails when no row has the id; then io.emit('disaster_updated' update), 200.
PutDisasters(d, u, stored) ==
  /\ CanPublish
  /\ IF MayChange(d, u) /\ stored /\ d \in dbDisasters
       THEN /\ dbRows' = [dbRows EXCEPT ![d] =
                            [edits |-> @.edits + 1,
                             audit_trail |-> Append(@.audit_trail, AuditEntry("update", u))]]
            /\ IoEmit(Event("disaster_updated", "update", d))
       ELSE UNCHANGED <<dbRows, inbox, published>>
  /\ UNCHANGED <<connState, rooms, dbDisasters, dbOwner, initialFetch, updPc, updTodo>>

\* Fault variant of DeleteDisasters: the event is emitted whatever the store says.
DeleteDisastersEmitsAnyway(d, u, stored) ==
  /\ CanPublish
  /\ IF MayChange(d, u)
       THEN /\ IF stored
                 THEN /\ dbDisasters' = dbDisasters \ {d}
                      /\ dbOwner' = [dbOwner EXCEPT ![d] = "none"]
                      /\ dbRows' = [dbRows EXCEPT ![d] = NoRow]
                 ELSE UNCHANGED <<dbDisasters, dbOwner, dbRows>>
            /\ IoEmit(Event("disaster_updated", "delete", d))
       ELSE UNCHANGED <<dbDisasters, dbOwner, dbRows, inbox, published>>
  /\ UNCHANGED <<connState, rooms, initialFetch, updPc, updTodo>>

\* app.delete('/disasters/:id'): 403 unless owner or admin; delete the rows of
\* the id (none is no error), io.emit('disaster_updated' delete), 204.
DeleteDisasters(d, u, stored) ==
  /\ CanPublish
  /\ IF MayChange(d, u) /\ stored
       THEN /\ dbDisasters' = dbDisasters \ {d}
            /\ dbOwner' = [dbOwner EXCEPT ![d] = "none"]
            /\ dbRows' = [dbRows EXCEPT ![d] = NoRow]
            /\ IoEmit(Event("disaster_updated", "delete", d))
       ELSE UNCHANGED <<dbDisasters, dbOwner, dbRows, inbox, published>>
  /\ UNCHANGED <<connState, rooms, initialFetch, updPc, updTodo>>

\* Fault variant of BulkUpdate: the role is not tested.
BulkUpdateUnchecked(ds, u, stored) ==
  /\ CanPublish
  /\ IF ds # {} /\ stored
       THEN /\ dbRows' = [d \in Disasters |->
                            IF d \in ds \cap dbDisasters
                              THEN [dbRows[d] EXCEPT !.edits = @ + 1] ELSE dbRows[d]]
            /\ IoEmit(Event("disasters_bulk_updated", "none", NoDisaster))
       ELSE UNCHANGED <<dbRows, inbox, published>>
  /\ UNCHANGED <<connState, rooms, dbDisasters, dbOwner, initialFetch, updPc, updTodo>>

\* app.post('/disasters/bulk-update'): 403 unless admin, 400 without ids; one
\* update of the rows whose id is listed (audit_trail is not among the columns
\* written), io.emit('disasters_bulk_updated'), 200.
BulkUpdate(ds, u, stored) ==
  /\ CanPublish
  /\ IF Role(u) = "admin" /\ ds # {} /\ stored
       THEN /\ dbRows' = [d \in Disasters |->
                            IF d \in ds \cap dbDisasters
                              THEN [dbRows[d] EXCEPT !.edits = @ + 1] ELSE dbRows[d]]
            /\ IoEmit(Event("disasters_bulk_updated", "none", NoDisaster))
       ELSE UNCHANGED <<dbRows, inbox, published>>
  /\ UNCHANGED <<connState, rooms, dbDisasters, dbOwner, initialFetch, updPc, updTodo>>

\* The PUT requests the server may be handling at the same time.
PutIds == 1..MaxPuts
IdlePut == [pc |-> "idle", id |-> NoDisaster, user |-> "none", current |-> << >>]

\* PUT /disasters/:id up to its second await: select audit_trail and owner_id
\* of the row, then the permission test (403 ends the run).
PutRead(r, d, u) ==
  /\ putReqs[r].pc = "idle"
  /\ putReqs' = [putReqs EXCEPT ![r] =
                   [pc |-> IF MayChange(d, u) THEN "write" ELSE "done",
                    id |-> d, user |-> u, current |-> dbRows[d].audit_trail]]
  /\ UNCHANGED <<serverVars, httpVars>>

\* PUT /disasters/:id from its second await on: update the row with the trail
\* that was read plus one entry, then io.emit('disaster_updated' update), 200.
PutWrite(r, stored) ==
  /\ putReqs[r].pc = "write"
  /\ CanPublish
  /\ putReqs' = [putReqs EXCEPT ![r].pc = "done"]
  /\ IF stored /\ putReqs[r].id \in dbDisasters
       THEN /\ dbRows' = [dbRows EXCEPT ![putReqs[r].id] =
                            [edits |-> @.edits + 1,
                             audit_trail |-> Append(putReqs[r].current,
                                                    AuditEntry("update", putReqs[r].user))]]
            /\ IoEmit(Event("disaster_updated", "update", putReqs[r].id))
       ELSE UNCHANGED <<dbRows, inbox, published>>
  /\ UNCHANGED <<connState, rooms, dbDisasters, dbOwner, initialFetch, updPc, updTodo>>

\* app.post('/disasters/:id/resources'): insert, io.emit('resource_created'), 201.
PostResources(d, stored) ==
  /\ CanPublish
  /\ IF stored
       THEN IoEmit(Event("resource_created", "none", d))
       ELSE UNCHANGED <<inbox, published>>
  /\ UNCHANGED <<connState, rooms, dbDisasters, dbOwner, dbRows, initialFetch, updPc, updTodo>>

\* ------------------------------------------------------------------------
\* updateActiveDisasters (setInterval): one run, suspended at each await
\* ------------------------------------------------------------------------
\* The orders in which the query may return the rows of a set of disasters.
Orders(S) ==
  {q \in UNION {[1..k -> S] : k \in 0..Cardinality(S)} :
     /\ Len(q) = Cardinality(S)
     /\ \A i, j \in 1..Len(q) : i # j => q[i] # q[j]}

\* The query for the active disasters returns; an empty or failed result
\* ends the run.
UpdateStart(rows, queryOk) ==
  /\ updPc = "idle"
  /\ rows \in Orders(dbDisasters)
  /\ IF queryOk /\ Len(rows) > 0
       THEN updPc' = "social" /\ updTodo' = rows
       ELSE updPc' = "idle" /\ updTodo' = << >>
  /\ UNCHANGED <<connState, rooms, inbox, published, dbDisasters>>

\* fetchSocialMedia returns and the room emit follows; a throw ends the run.
UpdateSocial(fetched) ==
  /\ updPc = "social"
  /\ CanPublish
  /\ IF fetched
       THEN /\ IoTo(Head(updTodo), Event("social_media_updated", "none", Head(updTodo)))
            /\ updPc' = "official"
            /\ UNCHANGED updTodo
       ELSE /\ updPc' = "idle"
            /\ updTodo' = << >>
            /\ UNCHANGED <<inbox, published>>
  /\ UNCHANGED <<connState, rooms, dbDisasters>>

\* fetchOfficialUpdates returns and the room emit follows; a throw ends the run.
UpdateOfficial(fetched) ==
  /\ updPc = "official"
  /\ CanPublish
  /\ IF fetched
       THEN /\ IoTo(Head(updTodo), Event("official_updates_updated", "none", Head(updTodo)))
            /\ updPc' = "delay"
            /\ UNCHANGED updTodo
       ELSE /\ updPc' = "idle"
            /\ updTodo' = << >>
            /\ UNCHANGED <<inbox, published>>
  /\ UNCHANGED <<connState, rooms, dbDisasters>>

\* The one-second delay elapses: next disaster, or the run ends.
UpdateDelay ==
  /\ updPc = "delay"
  /\ updTodo' = Tail(updTodo)
  /\ updPc' = IF Len(updTodo) > 1 THEN "social" ELSE "idle"
  /\ UNCHANGED <<connState, rooms, inbox, published, dbDisasters>>

\* ------------------------------------------------------------------------
\* Client: the App component and its module-level endpoint state
\* ------------------------------------------------------------------------
PRIMARY_API_URL == "primary"
FALLBACK_API_URL == "fallback"

\* The sockets the component creates: 1 by the effect, 2 by the fallback timer.
SockIds == {1, 2}
CallIds == 1..MaxCalls

VARIABLES
  API_BASE,           \* endpoint of the REST calls
  SOCKET_URL,         \* endpoint of the socket
  calls,              \* apiCall invocation -> [pc, reqs (the base URLs it has requested)]
  mounted,            \* the socket effect has run and its cleanup has not
  timer,              \* connectionTimeout: "pending" | "cleared" | "fired"
  socks,              \* socket -> [state, url, tries]
  socketRef,          \* socketRef.current
  socketConnected,
  connectionAttempts,
  notifications,      \* the visible list: [id, message]
  notifLog,           \* history: the message of every addNotification call, in order
  disasters,          \* local list of disasters: [id, src]
  selectedDisaster,   \* id of the selected disaster, or NoDisaster
  socialMedia,
  resources,
  reports,            \* local list of reports: [disaster_id, id]
  analytics,
  pending,            \* REST operations in flight: [op, id]
  now,                \* the reading of Date.now(), in milliseconds since the mount
  build,              \* which App component is built: part_000 or its variant part_001
  joinsInFlight,      \* socket -> join_disaster packets emitted, not yet handled by the server
  joinsEmitted,       \* socket -> disasters of the join_disaster messages emitted on it
  lastEvent,          \* history: the scoped event last handled since the selection was made
  startedLatched      \* history: apiCall invocations started with API_BASE on the fallback

endpointVars == <<API_BASE, SOCKET_URL>>
socketVars == <<mounted, timer, socks, socketRef, socketConnected, connectionAttempts>>
notifVars == <<notifications, notifLog>>
syncVars == <<disasters, selectedDisaster, socialMedia, resources, reports, analytics,
              pending, joinsEmitted>>
clientHist == <<lastEvent, startedLatched>>
clientVars == <<endpointVars, calls, socketVars, notifVars, syncVars, now, build, joinsInFlight,
               clientHist>>

vars == <<serverVars, httpVars, putReqs, histVars, rateVars, clientVars>>

\* The values the handlers registered by the socket effect see: the effect has
\* an empty dependency list, so its closures keep the state of the first render.
ClosureSocketConnected == FALSE
ClosureSelectedDisaster == NoDisaster
ClosureConnectionAttempts == 0

\* The template `Connection failed (attempt ${n})`.
AttemptMessage(n) ==
  CASE n = 1 -> "Connection failed (attempt 1)"
    [] n = 2 -> "Connection failed (attempt 2)"
    [] n = 3 -> "Connection failed (attempt 3)"
    [] OTHER -> "Connection failed (attempt 4+)"

\* ------------------------------------------------------------------------
\* Notifications
\* ------------------------------------------------------------------------
CanNotify == Len(notifLog) < MaxNotifs

\* The id `${Date.now()}-${Math.random().toString(36).substr(2, 9)}`: two ids
\* are equal exactly when the clock reading and the random suffix are.
NotificationId(t, suffix) == <<t, suffix>>

\* addNotification with the suffix Math.random() gave: append the entry and
\* start its 5 s timer.
AddNotificationWith(message, suffix) ==
  /\ notifications' = Append(notifications,
                             [id |-> NotificationId(now, suffix), message |-> message])
  /\ notifLog' = Append(notifLog, message)

\* addNotification when Math.random() gives a suffix no earlier call got.
AddNotification(message) == AddNotificationWith(message, Len(notifLog) + 1)

\* The two App components of the repository.
Builds == {"part_000", "part_001"}

\* The suffixes Math.random() may give when it is not taken to be fresh.
RandomSuffixes == {1, 2}

\* What follows Date.now() in the id: the random suffix in part_000, nothing
\* (written 0) in part_001, whose id is Date.now() alone.
IdSuffixes == IF build = "part_001" THEN {0} ELSE RandomSuffixes

\* Some call site invokes addNotification(message).
Notify(message, suffix) ==
  /\ mounted
  /\ CanNotify
  /\ AddNotificationWith(message, suffix)
  /\ UNCHANGED <<endpointVars, calls, socketVars, syncVars>>

\* A millisecond passes.
Tick ==
  /\ now < MaxClock
  /\ now' = now + 1
  /\ UNCHANGED <<endpointVars, calls, socketVars, notifVars, syncVars>>

\* The oldest running 5 s timer fires: filter its id out of the list.
Dismiss ==
  /\ notifications # << >>
  /\ notifications' = SelectSeq(notifications, LAMBDA n : n.id # Head(notifications).id)
  /\ UNCHANGED <<notifLog, endpointVars, calls, socketVars, syncVars>>

\* ------------------------------------------------------------------------
\* apiCall
\* ------------------------------------------------------------------------
\* Fault variant of ApiCallStart: the first request always goes to the primary.
ApiCallStartPrimary(k) ==
  /\ calls[k].pc = "idle"
  /\ calls' = [calls EXCEPT ![k] = [pc |-> "first", reqs |-> <<PRIMARY_API_URL>>]]
  /\ UNCHANGED <<endpointVars, socketVars, notifVars, syncVars>>

\* apiCall is entered: the first request goes to API_BASE.
ApiCallStart(k) ==
  /\ calls[k].pc = "idle"
  /\ calls' = [calls EXCEPT ![k] = [pc |-> "first", reqs |-> <<API_BASE>>]]
  /\ UNCHANGED <<endpointVars, socketVars, notifVars, syncVars>>

\* The first request settles; a failure sends the second one to the fallback.
ApiCallFirstSettles(k, ok) ==
  /\ calls[k].pc = "first"
  /\ calls' = [calls EXCEPT ![k] =
                 IF ok THEN [@ EXCEPT !.pc = "resolved"]
                       ELSE [pc |-> "second", reqs |-> Append(@.reqs, FALLBACK_API_URL)]]
  /\ UNCHANGED <<endpointVars, socketVars, notifVars, syncVars>>

\* Fault variant of ApiCallSecondSettles: the switch happens on a failure too.
ApiCallSecondSettlesSwitching(k, ok) ==
  /\ calls[k].pc = "second"
  /\ IF API_BASE # FALLBACK_API_URL
       THEN API_BASE' = FALLBACK_API_URL /\ SOCKET_URL' = FALLBACK_API_URL
       ELSE UNCHANGED endpointVars
  /\ calls' = [calls EXCEPT ![k].pc = IF ok THEN "resolved" ELSE "rejected"]
  /\ UNCHANGED <<socketVars, notifVars, syncVars>>

\* The fallback request settles; its success latches both endpoints.
ApiCallSecondSettles(k, ok) ==
  /\ calls[k].pc = "second"
  /\ IF ok /\ API_BASE # FALLBACK_API_URL
       THEN API_BASE' = FALLBACK_API_URL /\ SOCKET_URL' = FALLBACK_API_URL
       ELSE UNCHANGED endpointVars
  /\ calls' = [calls EXCEPT ![k].pc = IF ok THEN "resolved" ELSE "rejected"]
  /\ UNCHANGED <<socketVars, notifVars, syncVars>>

\* ------------------------------------------------------------------------
\* The socket effect: connectSocket, connectionTimeout, connection handlers
\* ------------------------------------------------------------------------
\* The handlers are registered once, on the socket socketRef.current holds
\* when the effect runs: socket 1.
HasHandlers(s) == s = 1

\* reconnectionAttempts: the retries after the first failed attempt.
ReconnectionAttempts == 3

\* connectSocket(url): disconnect the socket held, create the next one.
ConnectSocket(url) ==
  /\ socks' = [s \in SockIds |->
                 IF s = socketRef + 1 THEN [state |-> "connecting", url |-> url, tries |-> 0]
                 ELSE IF s = socketRef THEN [socks[s] EXCEPT !.state = "closed"]
                 ELSE socks[s]]
  /\ socketRef' = socketRef + 1

\* Fault variant of SockConnect: the handler leaves connectionTimeout running.
SockConnectKeepsTimer(s) ==
  /\ socks[s].state = "connecting"
  /\ socks' = [socks EXCEPT ![s].state = "connected", ![s].tries = 0]
  /\ IF HasHandlers(s)
       THEN /\ CanNotify
            /\ socketConnected' = TRUE
            /\ connectionAttempts' = 0
            /\ AddNotification("Connected to real-time updates")
       ELSE UNCHANGED <<socketConnected, connectionAttempts, notifVars>>
  /\ UNCHANGED <<mounted, timer, socketRef, endpointVars, calls, syncVars>>

\* 'connect' on socket s.
SockConnect(s) ==
  /\ socks[s].state = "connecting"
  /\ socks' = [socks EXCEPT ![s].state = "connected", ![s].tries = 0]
  /\ IF HasHandlers(s)
       THEN /\ CanNotify
            /\ socketConnected' = TRUE
            /\ connectionAttempts' = 0
            /\ timer' = IF timer = "pending" THEN "cleared" ELSE timer
            /\ AddNotification("Connected to real-time updates")
       ELSE UNCHANGED <<socketConnected, connectionAttempts, timer, notifVars>>
  /\ UNCHANGED <<mounted, socketRef, endpointVars, calls, syncVars>>

\* 'connect_error' on socket s: the manager retries until its attempts are spent.
SockConnectError(s) ==
  /\ socks[s].state = "connecting"
  /\ socks' = [socks EXCEPT ![s].tries = @ + 1,
                            ![s].state = IF socks[s].tries = ReconnectionAttempts
                                           THEN "failed" ELSE "connecting"]
  /\ IF HasHandlers(s)
       THEN /\ CanNotify
            /\ socketConnected' = FALSE
            /\ connectionAttempts' = connectionAttempts + 1
            /\ AddNotification(AttemptMessage(ClosureConnectionAttempts + 1))
       ELSE UNCHANGED <<socketConnected, connectionAttempts, notifVars>>
  /\ UNCHANGED <<mounted, timer, socketRef, endpointVars, calls, syncVars>>

\* 'disconnect' on socket s (the transport dropped): the manager reconnects.
SockDisconnect(s) ==
  /\ socks[s].state = "connected"
  /\ socks' = [socks EXCEPT ![s].state = "connecting"]
  /\ IF HasHandlers(s)
       THEN /\ CanNotify
            /\ socketConnected' = FALSE
            /\ AddNotification("Disconnected from real-time updates")
       ELSE UNCHANGED <<socketConnected, notifVars>>
  /\ UNCHANGED <<mounted, timer, socketRef, connectionAttempts, endpointVars, calls, syncVars>>

\* Fault variant of TimerFire: the notification without the switch.
TimerFireNoSwitch ==
  /\ timer = "pending"
  /\ CanNotify
  /\ timer' = "fired"
  /\ IF ~ClosureSocketConnected /\ SOCKET_URL # FALLBACK_API_URL
       THEN AddNotification("Switched to local server")
       ELSE AddNotification("Real-time features unavailable - using polling mode")
  /\ UNCHANGED <<endpointVars, socks, socketRef, mounted, socketConnected,
                 connectionAttempts, calls, syncVars>>

\* connectionTimeout fires, 8 s after the effect ran.
TimerFire ==
  /\ timer = "pending"
  /\ CanNotify
  /\ timer' = "fired"
  /\ IF ~ClosureSocketConnected /\ SOCKET_URL # FALLBACK_API_URL
       THEN /\ SOCKET_URL' = FALLBACK_API_URL
            /\ ConnectSocket(FALLBACK_API_URL)
            /\ AddNotification("Switched to local server")
       ELSE IF ~ClosureSocketConnected
       THEN /\ AddNotification("Real-time features unavailable - using polling mode")
            /\ UNCHANGED <<SOCKET_URL, socks, socketRef>>
       ELSE UNCHANGED <<SOCKET_URL, socks, socketRef, notifVars>>
  /\ UNCHANGED <<API_BASE, mounted, socketConnected, connectionAttempts, calls, syncVars>>

\* Fault variant of Unmount: the cleanup leaves connectionTimeout running.
UnmountKeepsTimer ==
  /\ mounted
  /\ mounted' = FALSE
  /\ socks' = [socks EXCEPT ![socketRef].state = "closed"]
  /\ UNCHANGED <<timer, socketRef, socketConnected, connectionAttempts, endpointVars, calls,
                 notifVars, syncVars>>

\* The effect's cleanup: clear the timer, disconnect the socket held.
Unmount ==
  /\ mounted
  /\ mounted' = FALSE
  /\ timer' = IF timer = "pending" THEN "cleared" ELSE timer
  /\ socks' = [socks EXCEPT ![socketRef].state = "closed"]
  /\ UNCHANGED <<socketRef, socketConnected, connectionAttempts, endpointVars, calls,
                 notifVars, syncVars>>

\* ------------------------------------------------------------------------
\* REST operations of the component
\* ------------------------------------------------------------------------
\* How an apiCall settles for its caller: resolved by its first request,
\* resolved by the fallback request, or rejected after both failed.
ApiOutcomes == {"ok", "fallback", "failed"}

\* The endpoint switch of the apiCalls that were resolved by the fallback.
ApiLatch(outcomes) ==
  IF "fallback" \in outcomes /\ API_BASE # FALLBACK_API_URL
    THEN API_BASE' = FALLBACK_API_URL /\ SOCKET_URL' = FALLBACK_API_URL
    ELSE UNCHANGED endpointVars

Disaster(d, src) == [id |-> d, src |-> src]
ReportIds == {1, 2}

\* What GET /disasters may answer: the stored disasters, in some order.
DisasterLists ==
  UNION {{[i \in DOMAIN q |-> Disaster(q[i], "rest")] : q \in Orders(S)} : S \in SUBSET Disasters}

\* What the detail requests of disaster d answer.
RestSocial(d) == <<[disaster_id |-> d, src |-> "rest"]>>
RestResources(d) == <<[disaster_id |-> d]>>
RestReports(d) == <<[disaster_id |-> d, id |-> 0]>>
RestAnalytics(d) == [disaster_id |-> d]
\* The analytics state null (before the first load, and after a failed one).
NoAnalytics == [disaster_id |-> NoDisaster]

\* The payloads of the socket events of disaster d.
EventSocial(d) == <<[disaster_id |-> d, src |-> "event"]>>
EventReport(d, rid) == [disaster_id |-> d, id |-> rid]

\* loadDisasters settles: setDisasters(data), or one notification.
LoadDisastersSettles(p, outcome, data) ==
  /\ mounted
  /\ p \in pending /\ p.op = "list"
  /\ pending' = pending \ {p}
  /\ ApiLatch({outcome})
  /\ IF outcome # "failed"
       THEN disasters' = data /\ UNCHANGED notifVars
       ELSE CanNotify /\ AddNotification("Failed to load disasters") /\ UNCHANGED disasters
  /\ UNCHANGED <<selectedDisaster, socialMedia, resources, reports, analytics,
                 joinsEmitted, calls, socketVars>>

\* createDisaster settles: on success one notification and loadDisasters(),
\* on failure one notification.
CreateDisasterSettles(outcome) ==
  /\ mounted
  /\ CanNotify
  /\ ApiLatch({outcome})
  /\ IF outcome # "failed"
       THEN /\ AddNotification("Disaster created successfully")
            /\ pending' = pending \cup {[op |-> "list", id |-> NoDisaster]}
       ELSE AddNotification("Failed to create disaster") /\ UNCHANGED pending
  /\ UNCHANGED <<disasters, selectedDisaster, socialMedia, resources, reports, analytics,
                 joinsEmitted, calls, socketVars>>

\* The user clicks a card of the list: setSelectedDisaster, then the effect
\* starts loadDisasterDetails and emits join_disaster on the socket held.
SelectDisaster(d) ==
  /\ mounted
  /\ \E i \in DOMAIN disasters : disasters[i].id = d
  /\ selectedDisaster' = d
  /\ pending' = pending \cup {[op |-> "details", id |-> d]}
  /\ joinsEmitted' = [joinsEmitted EXCEPT ![socketRef] = @ \cup {d}]
  /\ UNCHANGED <<disasters, socialMedia, resources, reports, analytics, endpointVars, calls,
                 socketVars, notifVars>>

\* loadDisasterDetails settles: each of its four apiCalls has its own catch,
\* so the four lists are always set, a failed one to its default.
LoadDisasterDetailsSettles(p, oSocial, oResources, oReports, oAnalytics) ==
  /\ mounted
  /\ p \in pending /\ p.op = "details"
  /\ pending' = pending \ {p}
  /\ ApiLatch({oSocial, oResources, oReports, oAnalytics})
  /\ socialMedia' = IF oSocial # "failed" THEN RestSocial(p.id) ELSE << >>
  /\ resources' = IF oResources # "failed" THEN RestResources(p.id) ELSE << >>
  /\ reports' = IF oReports # "failed" THEN RestReports(p.id) ELSE << >>
  /\ analytics' = IF oAnalytics # "failed" THEN RestAnalytics(p.id) ELSE NoAnalytics
  /\ UNCHANGED <<disasters, selectedDisaster, joinsEmitted, calls, socketVars, notifVars>>

\* ------------------------------------------------------------------------
\* Socket event handlers of the component
\* ------------------------------------------------------------------------
\* A socket event reaches a handler: the socket carries handlers and is connected.
Listening == \E s \in SockIds : HasHandlers(s) /\ socks[s].state = "connected"

\* Fault variant of OnDisasterUpdated: an update of an unknown id inserts it.
OnDisasterUpdatedUpsert(action, disaster) ==
  /\ Listening
  /\ IF action = "create"
       THEN /\ CanNotify
            /\ Len(disasters) < MaxList
            /\ disasters' = <<disaster>> \o disasters
            /\ AddNotification("New disaster reported")
       ELSE IF action = "update"
       THEN /\ CanNotify
            /\ Len(disasters) < MaxList
            /\ disasters' = IF \E i \in DOMAIN disasters : disasters[i].id = disaster.id
                               THEN [i \in DOMAIN disasters |->
                                       IF disasters[i].id = disaster.id THEN disaster
                                                                        ELSE disasters[i]]
                               ELSE <<disaster>> \o disasters
            /\ AddNotification("Disaster updated")
       ELSE UNCHANGED <<disasters, notifVars>>
  /\ UNCHANGED <<selectedDisaster, socialMedia, resources, reports, analytics, pending,
                 joinsEmitted, endpointVars, calls, socketVars>>

\* 'disaster_updated': create prepends, update replaces by id; no other branch.
OnDisasterUpdated(action, disaster) ==
  /\ Listening
  /\ IF action = "create"
       THEN /\ CanNotify
            /\ Len(disasters) < MaxList
            /\ disasters' = <<disaster>> \o disasters
            /\ AddNotification("New disaster reported")
       ELSE IF action = "update"
       THEN /\ CanNotify
            /\ disasters' = [i \in DOMAIN disasters |->
                               IF disasters[i].id = disaster.id THEN disaster ELSE disasters[i]]
            /\ AddNotification("Disaster updated")
       ELSE UNCHANGED <<disasters, notifVars>>
  /\ UNCHANGED <<selectedDisaster, socialMedia, resources, reports, analytics, pending,
                 joinsEmitted, endpointVars, calls, socketVars>>

\* 'social_media_updated'. The test is selectedDisaster?.id === data.disaster_id
\* on the closure's selectedDisaster; NoDisaster stands for the undefined id on
\* either side.
OnSocialMediaUpdated(d, data) ==
  /\ Listening
  /\ IF ClosureSelectedDisaster = d
       THEN CanNotify /\ socialMedia' = data /\ AddNotification("Social media updated")
       ELSE UNCHANGED <<socialMedia, notifVars>>
  /\ UNCHANGED <<disasters, selectedDisaster, resources, reports, analytics, pending,
                 joinsEmitted, endpointVars, calls, socketVars>>

\* Fault variant of OnReportCreated: no test of the event's disaster.
OnReportCreatedUnscoped(d, report) ==
  /\ Listening
  /\ CanNotify
  /\ reports' = <<report>> \o reports
  /\ AddNotification("New report received")
  /\ UNCHANGED <<disasters, selectedDisaster, socialMedia, resources, analytics, pending,
                 joinsEmitted, endpointVars, calls, socketVars>>

\* 'report_created': the same test as 'social_media_updated'.
OnReportCreated(d, report) ==
  /\ Listening
  /\ IF ClosureSelectedDisaster = d
       THEN CanNotify /\ reports' = <<report>> \o reports
            /\ AddNotification("New report received")
       ELSE UNCHANGED <<reports, notifVars>>
  /\ UNCHANGED <<disasters, selectedDisaster, socialMedia, resources, analytics, pending,
                 joinsEmitted, endpointVars, calls, socketVars>>

\* ------------------------------------------------------------------------
\* Specifications
\* ------------------------------------------------------------------------
NoEventYet == [kind |-> "none", disaster_id |-> NoDisaster]
NoRequestYet == [op |-> "none", id |-> NoDisaster, out |-> << >>]

NoRateYet == [ip |-> "none", status |-> "none", at |-> 0]

\* rateLimitStore = new Map(), before any request.
InitRate ==
  /\ rateLimitStore = [ip \in Ips |-> << >>]
  /\ serverNow = 0
  /\ admitted = [ip \in Ips |-> << >>]
  /\ lastRate = NoRateYet

InitServer ==
  /\ connState = [c \in Conns |-> "new"]
  /\ rooms = [c \in Conns |-> [d \in Disasters |-> 0]]
  /\ inbox = [c \in Conns |-> << >>]
  /\ published = << >>
  /\ dbDisasters = Disasters
  /\ updPc = "idle"
  /\ updTodo = << >>
  /\ dbOwner = [d \in Disasters |-> "netrunnerX"]
  /\ dbRows = [d \in Disasters |-> NewRow("netrunnerX")]
  /\ initialFetch = {}
  /\ joinCount = [c \in Conns |-> [d \in Disasters |-> 0]]
  /\ lastHttp = NoRequestYet
  /\ lastUser = "none"
  /\ lastHeader = "none"
  /\ InitRate
  /\ putReqs = [r \in PutIds |-> IdlePut]

\* The client after its first render and the effects of the mount.
InitClient ==
  /\ API_BASE = PRIMARY_API_URL
  /\ SOCKET_URL = PRIMARY_API_URL
  /\ calls = [k \in CallIds |-> [pc |-> "idle", reqs |-> << >>]]
  /\ mounted = TRUE
  /\ timer = "pending"
  /\ socks = [s \in SockIds |->
                IF s = 1 THEN [state |-> "connecting", url |-> PRIMARY_API_URL, tries |-> 0]
                         ELSE [state |-> "absent", url |-> "none", tries |-> 0]]
  /\ socketRef = 1
  /\ socketConnected = FALSE
  /\ connectionAttempts = 0
  /\ notifications = << >>
  /\ notifLog = << >>
  /\ disasters = << >>
  /\ selectedDisaster = NoDisaster
  /\ socialMedia = << >>
  /\ resources = << >>
  /\ reports = << >>
  /\ analytics = NoAnalytics
  /\ pending = {[op |-> "list", id |-> NoDisaster]}
  /\ joinsEmitted = [s \in SockIds |-> {}]
  /\ now = 0
  /\ joinsInFlight = [s \in SockIds |-> {}]
  /\ lastEvent = NoEventYet
  /\ startedLatched = {}

\* The client of the other specifications is App.jsx as it is now.
Init == InitServer /\ InitClient /\ build = "part_000"

\* addNotification exists in both components; either may be the one built.
InitNotif == InitServer /\ InitClient /\ build \in Builds

\* -- the event bus: every emitter of scoped events --
BusQuiet == UNCHANGED <<rateVars, putReqs, httpVars, histVars, clientVars>>

NextBus ==
  \/ \E c \in Conns : Connect(c) /\ BusQuiet
  \/ \E c \in Conns, d \in Disasters : JoinDisaster(c, d) /\ BusQuiet
  \/ \E c \in Conns, d \in Disasters : LeaveDisaster(c, d) /\ BusQuiet
  \/ \E c \in Conns : Disconnect(c) /\ BusQuiet
  \/ \E c \in Conns, d \in Disasters \cup {NoDisaster} : EmergencyAlert(c, d) /\ BusQuiet
  \/ \E d \in Disasters, stored \in BOOLEAN : PostReports(d, stored) /\ BusQuiet
  \/ \E d \in Disasters, fetched \in BOOLEAN : GetSocialMedia(d, fetched) /\ BusQuiet
  \/ \E rows \in Orders(dbDisasters), queryOk \in BOOLEAN : UpdateStart(rows, queryOk) /\ BusQuiet
  \/ \E fetched \in BOOLEAN : UpdateSocial(fetched) /\ BusQuiet
  \/ \E fetched \in BOOLEAN : UpdateOfficial(fetched) /\ BusQuiet
  \/ UpdateDelay /\ BusQuiet

SpecBus == Init /\ [][NextBus]_vars

\* -- the room registry, with the count of the joins handled --
RoomsQuiet == UNCHANGED <<rateVars, putReqs, httpVars, lastHttp, lastUser, lastHeader, clientVars>>

\* History: joins of c to d handled since c last left d (2 stands for "twice or more").
Joined(c, d) == joinCount' = [joinCount EXCEPT ![c][d] = Min(@ + 1, 2)]
Left(c, d) == joinCount' = [joinCount EXCEPT ![c][d] = 0]
LeftAll(c) == joinCount' = [joinCount EXCEPT ![c] = [d \in Disasters |-> 0]]

NextRooms ==
  \/ \E c \in Conns : Connect(c) /\ UNCHANGED joinCount /\ RoomsQuiet
  \/ \E c \in Conns, d \in Disasters : JoinDisaster(c, d) /\ Joined(c, d) /\ RoomsQuiet
  \/ \E c \in Conns, d \in Disasters : LeaveDisaster(c, d) /\ Left(c, d) /\ RoomsQuiet
  \/ \E c \in Conns : Disconnect(c) /\ LeftAll(c) /\ RoomsQuiet
  \/ \E c \in Conns, d \in Disasters \cup {NoDisaster} :
       EmergencyAlert(c, d) /\ UNCHANGED joinCount /\ RoomsQuiet

SpecRooms == Init /\ [][NextRooms]_vars

\* -- the global events: the disaster endpoints and the broadcast alert --
Requesters == {"netrunnerX", "citizen1"}

GlobalQuiet == UNCHANGED <<rateVars, putReqs, histVars, clientVars>>

NextGlobal ==
  \/ \E c \in Conns : Connect(c) /\ UNCHANGED httpVars /\ GlobalQuiet
  \/ \E c \in Conns, d \in Disasters : JoinDisaster(c, d) /\ UNCHANGED httpVars /\ GlobalQuiet
  \/ \E c \in Conns : Disconnect(c) /\ UNCHANGED httpVars /\ GlobalQuiet
  \/ \E c \in Conns, d \in Disasters \cup {NoDisaster} :
       EmergencyAlert(c, d) /\ UNCHANGED httpVars /\ GlobalQuiet
  \/ \E d \in Disasters, u \in Requesters, stored \in BOOLEAN :
       PostDisasters(d, u, stored) /\ GlobalQuiet
  \/ \E d \in Disasters, u \in Requesters, stored \in BOOLEAN :
       PutDisasters(d, u, stored) /\ GlobalQuiet
  \/ \E d \in Disasters, u \in Requesters, stored \in BOOLEAN :
       DeleteDisasters(d, u, stored) /\ GlobalQuiet

SpecGlobal == Init /\ [][NextGlobal]_vars

\* -- the mutating endpoints, with the outputs of each handler run --
MutQuiet == UNCHANGED <<rateVars, putReqs, joinCount, lastUser, lastHeader, clientVars>>

\* History: the handler of op for id d produced these outputs, in this order.
Served(op, d, out) == lastHttp' = [op |-> op, id |-> d, out |-> out]

\* The outputs of a handler run, as its statements produce them.
Committed(status) == <<"store", "emit", status>>
PostOutputs(stored) == IF stored THEN Committed("201") ELSE <<"500">>
PutOutputs(d, u, stored) ==
  IF ~MayChange(d, u) THEN <<"403">>
  ELSE IF stored /\ d \in dbDisasters THEN Committed("200") ELSE <<"500">>
DeleteOutputs(d, u, stored) ==
  IF ~MayChange(d, u) THEN <<"403">>
  ELSE IF stored THEN Committed("204") ELSE <<"500">>

NextMutations ==
  \/ \E c \in Conns : Connect(c) /\ UNCHANGED <<httpVars, lastHttp>> /\ MutQuiet
  \/ \E d \in Disasters, u \in Requesters, stored \in BOOLEAN :
       /\ PostDisasters(d, u, stored)
       /\ Served("POST /disasters", d, PostOutputs(stored))
       /\ MutQuiet
  \/ \E d \in Disasters, fetched \in BOOLEAN :
       InitialDataFetch(d, fetched) /\ UNCHANGED lastHttp /\ MutQuiet
  \/ \E d \in Disasters, u \in Requesters, stored \in BOOLEAN :
       /\ PutDisasters(d, u, stored)
       /\ Served("PUT /disasters/:id", d, PutOutputs(d, u, stored))
       /\ MutQuiet
  \/ \E d \in Disasters, u \in Requesters, stored \in BOOLEAN :
       /\ DeleteDisasters(d, u, stored)
       /\ Served("DELETE /disasters/:id", d, DeleteOutputs(d, u, stored))
       /\ MutQuiet
  \/ \E d \in Disasters, stored \in BOOLEAN :
       /\ PostReports(d, stored)
       /\ Served("POST /reports", d, PostOutputs(stored))
       /\ UNCHANGED httpVars
       /\ MutQuiet
  \/ \E d \in Disasters, stored \in BOOLEAN :
       /\ PostResources(d, stored)
       /\ Served("POST /disasters/:id/resources", d, PostOutputs(stored))
       /\ MutQuiet

SpecMutations == Init /\ [][NextMutations]_vars

\* -- the permission tests: PUT, DELETE and bulk-update by every user --
\* d1 belongs to the contributor, d2 to an admin.
InitAuth ==
  /\ connState = [c \in Conns |-> "new"]
  /\ rooms = [c \in Conns |-> [d \in Disasters |-> 0]]
  /\ inbox = [c \in Conns |-> << >>]
  /\ published = << >>
  /\ dbDisasters = Disasters
  /\ updPc = "idle"
  /\ updTodo = << >>
  /\ dbOwner = [d \in Disasters |-> IF d = "d1" THEN "citizen1" ELSE "netrunnerX"]
  /\ dbRows = [d \in Disasters |-> NewRow(dbOwner[d])]
  /\ initialFetch = {}
  /\ joinCount = [c \in Conns |-> [d \in Disasters |-> 0]]
  /\ lastHttp = NoRequestYet
  /\ lastUser = "none"
  /\ lastHeader = "none"
  /\ InitRate
  /\ putReqs = [r \in PutIds |-> IdlePut]
  /\ InitClient
  /\ build = "part_000"

AuthQuiet == UNCHANGED <<rateVars, putReqs, joinCount, lastHeader, clientVars>>

\* History: the handler ran with req.user.id = u.
ServedTo(u, op, d, out) == Served(op, d, out) /\ lastUser' = u

BulkOutputs(ds, u, stored) ==
  IF Role(u) # "admin" THEN <<"403">>
  ELSE IF ds = {} THEN <<"400">>
  ELSE IF stored THEN Committed("200") ELSE <<"500">>

NextAuth ==
  \/ \E c \in Conns : Connect(c) /\ UNCHANGED <<httpVars, lastHttp, lastUser>> /\ AuthQuiet
  \/ \E d \in Disasters, u \in Users, stored \in BOOLEAN :
       /\ PutDisasters(d, u, stored)
       /\ ServedTo(u, "PUT /disasters/:id", d, PutOutputs(d, u, stored))
       /\ AuthQuiet
  \/ \E d \in Disasters, u \in Users, stored \in BOOLEAN :
       /\ DeleteDisasters(d, u, stored)
       /\ ServedTo(u, "DELETE /disasters/:id", d, DeleteOutputs(d, u, stored))
       /\ AuthQuiet
  \/ \E ds \in SUBSET Disasters, u \in Users, stored \in BOOLEAN :
       /\ BulkUpdate(ds, u, stored)
       /\ ServedTo(u, "POST /disasters/bulk-update", NoDisaster, BulkOutputs(ds, u, stored))
       /\ AuthQuiet

SpecAuth == InitAuth /\ [][NextAuth]_vars

\* -- the same endpoints behind auth, for every x-user-id header --
HeaderQuiet == UNCHANGED <<rateVars, putReqs, joinCount, clientVars>>

\* History: the request carried this header and auth resolved it.
Authenticated(header) == lastHeader' = header /\ lastUser' = Auth(header)

NextHeaders ==
  \/ \E c \in Conns :
       Connect(c) /\ UNCHANGED <<httpVars, lastHttp, lastUser, lastHeader>> /\ HeaderQuiet
  \/ \E d \in Disasters, header \in Headers, stored \in BOOLEAN :
       /\ PutDisasters(d, Auth(header), stored)
       /\ Served("PUT /disasters/:id", d, PutOutputs(d, Auth(header), stored))
       /\ Authenticated(header)
       /\ HeaderQuiet
  \/ \E d \in Disasters, header \in Headers, stored \in BOOLEAN :
       /\ DeleteDisasters(d, Auth(header), stored)
       /\ Served("DELETE /disasters/:id", d, DeleteOutputs(d, Auth(header), stored))
       /\ Authenticated(header)
       /\ HeaderQuiet

SpecHeaders == InitAuth /\ [][NextHeaders]_vars

\* -- concurrent updates of the rows: PUT in its two store calls, bulk update --
AuditQuiet == UNCHANGED <<rateVars, histVars, clientVars>>

NextAudit ==
  \/ \E c \in Conns : Connect(c) /\ UNCHANGED <<httpVars, putReqs>> /\ AuditQuiet
  \/ \E r \in PutIds, d \in Disasters, u \in Users : PutRead(r, d, u) /\ AuditQuiet
  \/ \E r \in PutIds, stored \in BOOLEAN : PutWrite(r, stored) /\ AuditQuiet
  \/ \E ds \in SUBSET Disasters, u \in Users, stored \in BOOLEAN :
       BulkUpdate(ds, u, stored) /\ UNCHANGED putReqs /\ AuditQuiet

SpecAudit == InitAuth /\ [][NextAudit]_vars

\* -- the endpoint fallback: apiCall and the socket effect --
FallbackQuiet ==
  UNCHANGED <<rateVars, putReqs, serverVars, httpVars, histVars, now, build, joinsInFlight, lastEvent>>

NextFallback ==
  \/ \E k \in CallIds : /\ ApiCallStart(k)
                        /\ startedLatched' = IF API_BASE = FALLBACK_API_URL
                                               THEN startedLatched \cup {k}
                                               ELSE startedLatched
                        /\ FallbackQuiet
  \/ \E k \in CallIds, ok \in BOOLEAN :
       ApiCallFirstSettles(k, ok) /\ UNCHANGED startedLatched /\ FallbackQuiet
  \/ \E k \in CallIds, ok \in BOOLEAN :
       ApiCallSecondSettles(k, ok) /\ UNCHANGED startedLatched /\ FallbackQuiet
  \/ \E s \in SockIds : SockConnect(s) /\ UNCHANGED startedLatched /\ FallbackQuiet
  \/ \E s \in SockIds : SockConnectError(s) /\ UNCHANGED startedLatched /\ FallbackQuiet
  \/ \E s \in SockIds : SockDisconnect(s) /\ UNCHANGED startedLatched /\ FallbackQuiet
  \/ TimerFire /\ UNCHANGED startedLatched /\ FallbackQuiet
  \/ Unmount /\ UNCHANGED startedLatched /\ FallbackQuiet
  \/ Dismiss /\ UNCHANGED startedLatched /\ FallbackQuiet

SpecFallback == Init /\ [][NextFallback]_vars

\* -- the local list of disasters: GET /disasters and 'disaster_updated' --
ListQuiet ==
  UNCHANGED <<rateVars, putReqs, serverVars, httpVars, histVars, now, build, joinsInFlight,
              startedLatched>>

\* History: the step hands a 'disaster_updated' event to its handler.
HandledUpdate(action, d) == lastEvent' = [kind |-> action, disaster_id |-> d]

NextList ==
  \/ SockConnect(1) /\ UNCHANGED lastEvent /\ ListQuiet
  \/ Dismiss /\ UNCHANGED lastEvent /\ ListQuiet
  \/ \E p \in pending, outcome \in ApiOutcomes, data \in DisasterLists :
       LoadDisastersSettles(p, outcome, data) /\ UNCHANGED lastEvent /\ ListQuiet
  \/ \E action \in {"create", "update", "delete"}, d \in Disasters :
       OnDisasterUpdated(action, Disaster(d, "event")) /\ HandledUpdate(action, d) /\ ListQuiet

SpecList == Init /\ [][NextList]_vars

\* -- the selected disaster: its REST details and its scoped socket events --
SyncQuiet ==
  UNCHANGED <<rateVars, putReqs, serverVars, httpVars, histVars, now, build, joinsInFlight,
              startedLatched>>

NoEvent == UNCHANGED lastEvent

\* History: the step hands an event of this kind and disaster to its handler.
Handled(kind, d) == lastEvent' = [kind |-> kind, disaster_id |-> d]

NextSync ==
  \/ SockConnect(1) /\ NoEvent /\ SyncQuiet
  \/ \E p \in pending, outcome \in ApiOutcomes, data \in DisasterLists :
       LoadDisastersSettles(p, outcome, data) /\ NoEvent /\ SyncQuiet
  \/ \E d \in Disasters : SelectDisaster(d) /\ lastEvent' = NoEventYet /\ SyncQuiet
  \/ \E p \in pending, oSocial, oReports \in ApiOutcomes :
       LoadDisasterDetailsSettles(p, oSocial, "ok", oReports, "ok") /\ NoEvent /\ SyncQuiet
  \/ \E d \in Disasters \cup {NoDisaster} :
       /\ OnSocialMediaUpdated(d, EventSocial(d))
       /\ Handled("social_media_updated", d)
       /\ SyncQuiet
  \/ \E d \in Disasters \cup {NoDisaster}, rid \in ReportIds :
       /\ OnReportCreated(d, EventReport(d, rid))
       /\ Handled("report_created", d)
       /\ SyncQuiet

SpecSync == Init /\ [][NextSync]_vars

\* -- the subscriptions of one client: its socket 1 is connection c1 --
ClientConn == "c1"

SubsQuiet == UNCHANGED <<rateVars, putReqs, httpVars, histVars, now, build, joinsInFlight, clientHist>>

\* The server handles a join_disaster message the client emitted.
ServeJoin(d) ==
  /\ d \in joinsEmitted[1]
  /\ rooms[ClientConn][d] = 0
  /\ JoinDisaster(ClientConn, d)

NextSubs ==
  \/ SockConnect(1) /\ Connect(ClientConn) /\ SubsQuiet
  \/ \E p \in pending, outcome \in ApiOutcomes, data \in DisasterLists :
       LoadDisastersSettles(p, outcome, data) /\ UNCHANGED serverVars /\ SubsQuiet
  \/ \E d \in Disasters : SelectDisaster(d) /\ UNCHANGED serverVars /\ SubsQuiet
  \/ \E p \in pending, oSocial, oReports \in ApiOutcomes :
       /\ LoadDisasterDetailsSettles(p, oSocial, "ok", oReports, "ok")
       /\ UNCHANGED serverVars
       /\ SubsQuiet
  \/ \E d \in Disasters :
       ServeJoin(d) /\ UNCHANGED <<endpointVars, calls, socketVars, notifVars, syncVars>>
                    /\ SubsQuiet

SpecSubs == Init /\ [][NextSubs]_vars

\* -- one client and the server: creating disasters, loading the list --
\* The store is empty: every id the server creates is a new one.
InitCreate ==
  /\ connState = [c \in Conns |-> "new"]
  /\ rooms = [c \in Conns |-> [d \in Disasters |-> 0]]
  /\ inbox = [c \in Conns |-> << >>]
  /\ published = << >>
  /\ dbDisasters = {}
  /\ updPc = "idle"
  /\ updTodo = << >>
  /\ dbOwner = [d \in Disasters |-> "none"]
  /\ dbRows = [d \in Disasters |-> NoRow]
  /\ initialFetch = {}
  /\ joinCount = [c \in Conns |-> [d \in Disasters |-> 0]]
  /\ lastHttp = NoRequestYet
  /\ lastUser = "none"
  /\ lastHeader = "none"
  /\ InitRate
  /\ putReqs = [r \in PutIds |-> IdlePut]
  /\ InitClient
  /\ build = "part_000"

CreateQuiet == UNCHANGED <<rateVars, putReqs, histVars, now, build, joinsInFlight, clientHist>>

ClientQuiet == UNCHANGED <<endpointVars, calls, socketVars, notifVars, syncVars>>

\* GET /disasters answers the rows the store holds when it is served.
StoredLists == {[i \in DOMAIN q |-> Disaster(q[i], "rest")] : q \in Orders(dbDisasters)}

\* The packet at the head of the client's socket reaches its handler.
ReceiveDisasterUpdated ==
  /\ inbox[ClientConn] # << >>
  /\ Head(inbox[ClientConn]).kind = "disaster_updated"
  /\ OnDisasterUpdated(Head(inbox[ClientConn]).action,
                       Disaster(Head(inbox[ClientConn]).disaster_id, "event"))
  /\ inbox' = [inbox EXCEPT ![ClientConn] = Tail(@)]
  /\ UNCHANGED <<connState, rooms, published, dbDisasters, updPc, updTodo>>

NextCreate ==
  \/ SockConnect(1) /\ Connect(ClientConn) /\ UNCHANGED httpVars /\ CreateQuiet
  \/ \E d \in Disasters, stored \in BOOLEAN :
       /\ PostDisasters(d, "netrunnerX", stored)
       /\ CreateDisasterSettles(IF stored THEN "ok" ELSE "failed")
       /\ CreateQuiet
  \/ \E d \in Disasters, stored \in BOOLEAN :
       PostDisasters(d, "citizen1", stored) /\ ClientQuiet /\ CreateQuiet
  \/ \E p \in pending, outcome \in ApiOutcomes, data \in StoredLists :
       /\ LoadDisastersSettles(p, outcome, data)
       /\ UNCHANGED <<serverVars, httpVars>>
       /\ CreateQuiet
  \/ ReceiveDisasterUpdated /\ UNCHANGED httpVars /\ CreateQuiet

SpecCreate == InitCreate /\ [][NextCreate]_vars

\* -- one client and the server: connections, reconnections, subscriptions --
ReconnectQuiet == UNCHANGED <<rateVars, putReqs, httpVars, histVars, now, build, clientHist>>

\* The server-side socket of the client's next connection, and of its
\* connection now: every (re)connection is a new socket on the server.
NextConn == IF connState["c1"] = "new" THEN "c1" ELSE "c2"
LiveConn == CHOOSE c \in Conns : connState[c] = "live"

\* socket.emit('join_disaster', id) of the selection effect: the packet is
\* written to the socket held, which buffers it until it is connected.
EmitJoin(d) == joinsInFlight' = [joinsInFlight EXCEPT ![socketRef] = @ \cup {d}]

\* The server handles a join_disaster packet of the connected socket s.
ServeJoinOf(s, d) ==
  /\ socks[s].state = "connected"
  /\ d \in joinsInFlight[s]
  /\ joinsInFlight' = [joinsInFlight EXCEPT ![s] = @ \ {d}]
  /\ JoinDisaster(LiveConn, d)
  /\ ClientQuiet

NextReconnect ==
  \/ \E s \in SockIds :
       SockConnect(s) /\ Connect(NextConn) /\ UNCHANGED joinsInFlight /\ ReconnectQuiet
  \/ \E s \in SockIds :
       SockDisconnect(s) /\ Disconnect(LiveConn) /\ UNCHANGED joinsInFlight /\ ReconnectQuiet
  \/ TimerFire /\ UNCHANGED <<serverVars, joinsInFlight>> /\ ReconnectQuiet
  \/ \E p \in pending, data \in DisasterLists :
       /\ LoadDisastersSettles(p, "ok", data)
       /\ UNCHANGED <<serverVars, joinsInFlight>>
       /\ ReconnectQuiet
  \/ \E d \in Disasters :
       SelectDisaster(d) /\ EmitJoin(d) /\ UNCHANGED serverVars /\ ReconnectQuiet
  \/ \E s \in SockIds, d \in Disasters : ServeJoinOf(s, d) /\ ReconnectQuiet

SpecReconnect == Init /\ [][NextReconnect]_vars

\* The server handles every packet it was sent.
SpecReconnectLive ==
  SpecReconnect /\ WF_vars(\E s \in SockIds, d \in Disasters : ServeJoinOf(s, d) /\ ReconnectQuiet)

\* -- the rate limiter: requests of two client IPs over time --
RateQuiet == UNCHANGED <<serverVars, httpVars, putReqs, histVars, clientVars>>

\* History: whether the request was passed on (next()) or answered 429.
Answered(ip) ==
  /\ lastRate' = [ip |-> ip, at |-> serverNow,
                  status |-> IF rateLimitStore'[ip] = rateLimitStore[ip] THEN "429" ELSE "next"]
  /\ admitted' = IF rateLimitStore'[ip] = rateLimitStore[ip]
                   THEN admitted
                   ELSE [admitted EXCEPT ![ip] = Append(@, serverNow)]

NextRate ==
  \/ ServerTick /\ UNCHANGED <<admitted, lastRate>> /\ RateQuiet
  \/ \E ip \in Ips : RateLimit(ip) /\ UNCHANGED serverNow /\ Answered(ip) /\ RateQuiet

SpecRate == Init /\ [][NextRate]_vars

\* -- the notifications: addNotification and its timers --
NotifQuiet ==
  UNCHANGED <<rateVars, putReqs, serverVars, httpVars, histVars, build, joinsInFlight, clientHist>>

NextNotif ==
  \/ Tick /\ NotifQuiet
  \/ \E message \in {"Refreshing data...", "Report submitted successfully"},
        suffix \in IdSuffixes :
       Notify(message, suffix) /\ UNCHANGED now /\ NotifQuiet
  \/ Dismiss /\ UNCHANGED now /\ NotifQuiet

SpecNotif == InitNotif /\ [][NextNotif]_vars

\* ------------------------------------------------------------------------
\* Properties of the event bus
\* ------------------------------------------------------------------------
\* The event a step publishes, when it publishes one.
Publishes == Len(published') = Len(published) + 1
Emitted == published'[Len(published')]
IsScoped(ev) == ev.kind \in ScopedKinds /\ ev.disaster_id # NoDisaster

\* C1: an event scoped to a disaster D is written only to connections that are
\* subscribed to D when it is emitted (joined D, and neither left nor
\* disconnected since), whichever server operation publishes it.
C1_ScopedOnlyToSubscribers ==
  [][\A c \in Conns : \A i \in (Len(inbox[c]) + 1)..Len(inbox'[c]) :
        IsScoped(inbox'[c][i]) => rooms[c][inbox'[c][i].disaster_id] > 0]_vars

\* C2: whenever an event scoped to D is published while connection c is
\* subscribed to D, exactly that event is appended to what c has received, so c
\* receives every such event, in publish order.
C2_SubscribedReceivesInOrder ==
  [][\A c \in Conns :
        (/\ Publishes
         /\ IsScoped(Emitted)
         /\ connState[c] = "live"
         /\ rooms[c][Emitted.disaster_id] > 0)
        => inbox'[c] = Append(inbox[c], Emitted)]_vars

\* A connection subscribed to d holds the two room events of one visit of
\* updateActiveDisasters to d, in publish order.
C2_Witness ==
  \E c \in Conns, d \in Disasters :
    /\ rooms[c][d] > 0
    /\ Len(published) = 2
    /\ inbox[c] = published
    /\ published[1].kind = "social_media_updated" /\ published[1].disaster_id = d
    /\ published[2].kind = "official_updates_updated" /\ published[2].disaster_id = d

\* C5: once a connection is closed it stays closed, it is in no room, and
\* nothing more is written to it, whatever is published afterwards.
C5_TeardownSafety ==
  [][\A c \in Conns :
        connState[c] = "closed" =>
          /\ connState'[c] = "closed"
          /\ \A d \in Disasters : rooms[c][d] = 0 /\ rooms'[c][d] = 0
          /\ inbox'[c] = inbox[c]]_vars

\* A connection received the first event, was torn down while a run of
\* updateActiveDisasters was suspended, and a later broadcast did not reach it.
C5_Witness ==
  \E c \in Conns :
    /\ connState[c] = "closed"
    /\ updPc = "official"
    /\ Len(published) = 2
    /\ inbox[c] = <<published[1]>>
    /\ published[2].kind = "report_created"

\* C6: a connection that joined D once or several times holds exactly one
\* membership of room D, one leave (or the teardown) takes it to none, and an
\* event emitted to room D after two joins is written to it exactly once.
C6_JoinIdempotent ==
  [][/\ \A c \in Conns, d \in Disasters :
          rooms'[c][d] = IF joinCount'[c][d] >= 1 THEN 1 ELSE 0
     /\ \A c \in Conns :
          (/\ Publishes
           /\ IsScoped(Emitted)
           /\ connState[c] = "live"
           /\ joinCount[c][Emitted.disaster_id] = 2)
          => inbox'[c] = Append(inbox[c], Emitted)]_vars

\* A connection that joined d twice holds one event of room d.
C6_Witness ==
  \E c \in Conns, d \in Disasters :
    /\ joinCount[c][d] = 2
    /\ rooms[c][d] = 1
    /\ Len(inbox[c]) = 1
    /\ inbox[c][1].kind = "emergency_alert" /\ inbox[c][1].disaster_id = d

\* The events meant for every connection.
IsGlobal(ev) ==
  \/ ev.kind = "disaster_updated"
  \/ ev.kind = "emergency_alert" /\ ev.disaster_id = NoDisaster

\* C13: a global event (disaster_updated of any action, emergency_alert without
\* disaster_id) is written to every connection that is live when it is
\* published, whatever rooms the connection is in.
C13_GlobalToEveryLive ==
  [][\A c \in Conns :
        (Publishes /\ IsGlobal(Emitted) /\ connState[c] = "live")
        => inbox'[c] = Append(inbox[c], Emitted)]_vars

\* c1 is in the room of d1 only and c2 in no room: both hold the delete event
\* of d2 and the create event that followed.
C13_Witness ==
  /\ connState["c1"] = "live" /\ connState["c2"] = "live"
  /\ rooms["c1"]["d1"] = 1 /\ rooms["c1"]["d2"] = 0
  /\ rooms["c2"]["d1"] = 0 /\ rooms["c2"]["d2"] = 0
  /\ Len(published) = 2
  /\ inbox["c1"] = published /\ inbox["c2"] = published
  /\ published[1].action = "delete" /\ published[1].disaster_id = "d2"
  /\ published[2].action = "create" /\ published[2].disaster_id = "d2"

\* The events that announce a store mutation.
MutationKinds == {"disaster_updated", "report_created", "resource_created"}
Last(q) == q[Len(q)]

\* What the store shows after the mutation an event announces.
StoreShows(ev) ==
  CASE ev.action = "create" -> ev.disaster_id \in dbDisasters' \ dbDisasters
    [] ev.action = "update" -> ev.disaster_id \in dbDisasters'
    [] ev.action = "delete" -> ev.disaster_id \notin dbDisasters'
    [] OTHER -> TRUE

\* C18: a mutation event is emitted only by a handler run whose store mutation
\* succeeded, after the store call and before the success response; a run that
\* is refused (403) or whose store call fails (500) emits nothing and changes
\* nothing in the store.
C18_EmitAfterCommit ==
  [][/\ (Publishes /\ Emitted.kind \in MutationKinds) =>
          /\ lastHttp'.id = Emitted.disaster_id
          /\ Len(lastHttp'.out) = 3
          /\ lastHttp'.out[1] = "store" /\ lastHttp'.out[2] = "emit"
          /\ lastHttp'.out[3] \in {"200", "201", "204"}
          /\ StoreShows(Emitted)
     /\ (lastHttp' # lastHttp /\ Last(lastHttp'.out) \in {"403", "500"}) =>
          UNCHANGED <<published, inbox, dbDisasters, dbOwner>>
     /\ (lastHttp' # lastHttp /\ Last(lastHttp'.out) \in {"200", "201", "204"}) =>
          (Publishes /\ Emitted.kind \in MutationKinds)]_vars

\* d1 was deleted (one event); the PUT of d1 that followed failed in the store
\* and emitted nothing.
C18_Witness ==
  /\ lastHttp = [op |-> "PUT /disasters/:id", id |-> "d1", out |-> <<"500">>]
  /\ "d1" \notin dbDisasters
  /\ Len(published) = 1
  /\ published[1].action = "delete" /\ published[1].disaster_id = "d1"
  /\ connState["c1"] = "live" /\ inbox["c1"] = published

\* ------------------------------------------------------------------------
\* Properties of the rate limiter
\* ------------------------------------------------------------------------
\* The requests of ip admitted with a timestamp in the window (t - WindowMs, t].
AdmittedIn(ip, t) ==
  {i \in DOMAIN admitted[ip] : admitted[ip][i] > t - WindowMs /\ admitted[ip][i] <= t}

\* C27: for every client IP and every time t at most MaxRequests of its
\* admitted requests have a timestamp in (t - WindowMs, t]; a request answered
\* 429 leaves the Map as it was; and a request of one IP is answered from that
\* IP's own timestamps and leaves the other IPs' timestamps as they were.
C27_RateLimitBound ==
  /\ [](\A ip \in Ips, t \in 0..serverNow : Cardinality(AdmittedIn(ip, t)) <= MaxRequests)
  /\ [][lastRate' # lastRate =>
          /\ lastRate'.status = "429" => rateLimitStore' = rateLimitStore
          /\ lastRate'.status = "429"
               <=> Cardinality(AdmittedIn(lastRate'.ip, serverNow)) >= MaxRequests
          /\ \A ip \in Ips \ {lastRate'.ip} :
               rateLimitStore'[ip] = rateLimitStore[ip]]_vars

\* One IP was admitted before the present window and has used up the present
\* one: its last request was answered 429, while the other IP was admitted.
C27_Witness ==
  \E ip, other \in Ips :
    /\ ip # other
    /\ Len(admitted[ip]) = MaxRequests + 1
    /\ admitted[ip][1] <= serverNow - WindowMs
    /\ Cardinality(AdmittedIn(ip, serverNow)) = MaxRequests
    /\ admitted[other] # << >>
    /\ lastRate = [ip |-> ip, status |-> "429", at |-> serverNow]

\* ------------------------------------------------------------------------
\* Properties of the permission tests
\* ------------------------------------------------------------------------
\* The handler run of this step was a PUT or a DELETE of a disaster by a user
\* who neither owns it nor is an admin, or a bulk update by a non-admin.
Unauthorized ==
  \/ /\ lastHttp'.op \in {"PUT /disasters/:id", "DELETE /disasters/:id"}
     /\ dbOwner[lastHttp'.id] # lastUser'
     /\ Role(lastUser') # "admin"
  \/ /\ lastHttp'.op = "POST /disasters/bulk-update"
     /\ Role(lastUser') # "admin"

\* C28: a PUT or DELETE of a disaster by a user who neither owns it nor is an
\* admin, and a bulk update by a non-admin, is answered 403 and nothing else:
\* the rows, their owners and audit trails are as before and no event is
\* emitted.
C28_ForbiddenHasNoEffect ==
  [][(<<lastHttp, lastUser>>' # <<lastHttp, lastUser>> /\ Unauthorized) =>
        /\ lastHttp'.out = <<"403">>
        /\ UNCHANGED <<dbDisasters, dbOwner, dbRows, published, inbox>>]_vars

\* The contributor updated the disaster it owns, and its DELETE of the admin's
\* disaster was answered 403.
C28_Witness ==
  /\ lastUser = "citizen1"
  /\ lastHttp = [op |-> "DELETE /disasters/:id", id |-> "d2", out |-> <<"403">>]
  /\ dbRows["d1"].audit_trail = <<AuditEntry("create", "citizen1"), AuditEntry("update", "citizen1")>>
  /\ dbRows["d2"] = NewRow("netrunnerX")
  /\ "d2" \in dbDisasters

\* The registered admins.
Admins == {u \in Users : Role(u) = "admin"}

\* C29: a PUT or DELETE whose x-user-id header is missing or names no
\* registered admin changes nothing in a disaster that the named user does not
\* own: the rows, owners and audit trails are as before and no event is emitted.
C29_AdminOnlyByHeader ==
  [][(/\ <<lastHttp, lastUser, lastHeader>>' # <<lastHttp, lastUser, lastHeader>>
      /\ lastHeader' \notin Admins
      /\ dbOwner[lastHttp'.id] # lastHeader')
     => UNCHANGED <<dbDisasters, dbOwner, dbRows, published>>]_vars

\* The PUT requests on d that have succeeded: each emitted its update event.
PutsSucceeded(d) ==
  Cardinality({i \in DOMAIN published :
                 /\ published[i].kind = "disaster_updated"
                 /\ published[i].action = "update"
                 /\ published[i].disaster_id = d})

\* C30: the audit trail of a stored disaster is its create entry followed by
\* exactly one update entry per PUT request on it that has succeeded, however
\* the PUT requests and the bulk updates interleave.
C30_AuditTrailComplete ==
  \A d \in dbDisasters :
    /\ Len(dbRows[d].audit_trail) = 1 + PutsSucceeded(d)
    /\ dbRows[d].audit_trail[1].action = "create"
    /\ \A i \in 2..Len(dbRows[d].audit_trail) : dbRows[d].audit_trail[i].action = "update"

\* ------------------------------------------------------------------------
\* Properties of the endpoint fallback
\* ------------------------------------------------------------------------
Occurrences(log, message) == Cardinality({i \in DOMAIN log : log[i] = message})

\* C3: once API_BASE is the fallback URL it stays the fallback URL, and an
\* apiCall started while it is the fallback sends every request to the
\* fallback URL, whatever succeeds or fails.
C3_FallbackLatch ==
  [][/\ API_BASE = FALLBACK_API_URL => API_BASE' = FALLBACK_API_URL
     /\ \A k \in startedLatched' : \A i \in DOMAIN calls'[k].reqs :
          calls'[k].reqs[i] = FALLBACK_API_URL]_vars

\* An apiCall started after the switch failed twice: both requests went to the
\* fallback URL.
C3_Witness ==
  \E k \in startedLatched :
    /\ API_BASE = FALLBACK_API_URL
    /\ calls[k].pc = "rejected"
    /\ calls[k].reqs = <<FALLBACK_API_URL, FALLBACK_API_URL>>

\* C7: when connectionTimeout fires with the socket not connected and
\* SOCKET_URL still the primary, SOCKET_URL becomes the fallback, a new socket
\* is opened against the fallback and exactly one 'Switched to local server'
\* notification is added; the timer fires once, so the switch happens at most
\* once.
C7_TimerSwitchesOnce ==
  [][/\ (/\ timer = "pending" /\ timer' = "fired"
         /\ ~socketConnected
         /\ SOCKET_URL = PRIMARY_API_URL)
        => /\ SOCKET_URL' = FALLBACK_API_URL
           /\ socketRef' = socketRef + 1
           /\ socks'[socketRef'] =
                [state |-> "connecting", url |-> FALLBACK_API_URL, tries |-> 0]
           /\ notifLog' = Append(notifLog, "Switched to local server")
     /\ timer = "fired" => timer' = "fired" /\ socketRef' = socketRef
     /\ Occurrences(notifLog', "Switched to local server") <= 1]_vars

\* The timer fired with the REST endpoint still on the primary: the socket
\* endpoint is the fallback and the second socket is the one held.
C7_Witness ==
  /\ timer = "fired"
  /\ API_BASE = PRIMARY_API_URL
  /\ SOCKET_URL = FALLBACK_API_URL
  /\ socketRef = 2
  /\ socks[2].url = FALLBACK_API_URL
  /\ Occurrences(notifLog, "Switched to local server") = 1

\* C8: a 'connect' while connectionTimeout is pending clears it, and a cleared
\* timer never fires: it opens no socket, adds neither of its two
\* notifications, and SOCKET_URL can change only together with API_BASE (the
\* switch of apiCall).
C8_ConnectCancelsTimer ==
  [][/\ (/\ timer = "pending"
         /\ socks[1].state = "connecting" /\ socks'[1].state = "connected")
        => timer' = "cleared"
     /\ timer = "cleared" =>
          /\ timer' = "cleared"
          /\ socketRef' = socketRef
          /\ Occurrences(notifLog', "Switched to local server") = 0
          /\ Occurrences(notifLog',
                         "Real-time features unavailable - using polling mode") = 0
          /\ SOCKET_URL' # SOCKET_URL => API_BASE' # API_BASE]_vars

\* The socket connected first and was dropped later: the component is mounted
\* and disconnected, and the timer is cleared.
C8_Witness ==
  /\ mounted
  /\ timer = "cleared"
  /\ socks[1].state = "connecting"
  /\ ~socketConnected
  /\ SOCKET_URL = PRIMARY_API_URL
  /\ Len(notifLog) >= 2
  /\ notifLog[1] = "Connected to real-time updates"
  /\ notifLog[2] = "Disconnected from real-time updates"

\* C14: API_BASE and SOCKET_URL name the same server in every state, whichever
\* path switched.
C14_EndpointsInSync == API_BASE = SOCKET_URL

\* C15: the replacement socket opened against the fallback is handled as the
\* original one: its 'connect' sets socketConnected and adds 'Connected to
\* real-time updates', its 'disconnect' resets socketConnected and adds
\* 'Disconnected from real-time updates'.
C15_ReplacementHandled ==
  [][/\ (socks[2].state = "connecting" /\ socks'[2].state = "connected") =>
          /\ socketConnected'
          /\ notifLog' = Append(notifLog, "Connected to real-time updates")
     /\ (socks[2].state = "connected" /\ socks'[2].state = "connecting") =>
          /\ ~socketConnected'
          /\ notifLog' = Append(notifLog, "Disconnected from real-time updates")]_vars

\* C16: an apiCall makes at most two requests; when the fallback request fails
\* too the call is rejected, makes no further request, stays rejected, and
\* API_BASE and SOCKET_URL are as before.
C16_BothFail ==
  [][\A k \in CallIds :
        /\ Len(calls'[k].reqs) <= 2
        /\ (calls[k].pc = "second" /\ calls'[k].pc = "rejected") =>
             /\ UNCHANGED <<API_BASE, SOCKET_URL>>
             /\ calls'[k].reqs = calls[k].reqs
        /\ calls[k].pc = "rejected" => calls'[k] = calls[k]]_vars

\* A call was rejected after the primary and the fallback request, and both
\* endpoints are still the primary.
C16_Witness ==
  \E k \in CallIds :
    /\ calls[k].pc = "rejected"
    /\ calls[k].reqs = <<PRIMARY_API_URL, FALLBACK_API_URL>>
    /\ API_BASE = PRIMARY_API_URL
    /\ SOCKET_URL = PRIMARY_API_URL

\* C21: after the cleanup of the socket effect has run, connectionTimeout is not
\* pending and never fires: no socket is opened, no notification is added,
\* SOCKET_URL changes only together with API_BASE (the switch of an apiCall
\* still in flight), and the socket held at the cleanup is closed and stays so.
C21_TeardownCancelsTimer ==
  /\ [](~mounted => timer # "pending" /\ socks[socketRef].state = "closed")
  /\ [][~mounted =>
          /\ ~mounted'
          /\ timer' = timer
          /\ socketRef' = socketRef
          /\ socks' = socks
          /\ notifLog' = notifLog
          /\ SOCKET_URL' # SOCKET_URL => API_BASE' # API_BASE]_vars

\* The cleanup ran while connectionTimeout was pending (no 'connect' had
\* cleared it) and the first socket was still trying to connect.
C21_Witness ==
  /\ ~mounted
  /\ timer = "cleared"
  /\ ~socketConnected
  /\ Occurrences(notifLog, "Connected to real-time updates") = 0
  /\ socketRef = 1
  /\ socks[1].state = "closed"

\* C22: while the component is mounted, socketConnected is true exactly when
\* the socket held in socketRef is connected.
C22_IndicatorReflectsSocket ==
  mounted => (socketConnected <=> socks[socketRef].state = "connected")

\* C26: once connectionTimeout has fired, the client is not left with API_BASE
\* on the fallback while the socket it holds is unconnected and targets the
\* primary: the socket was re-opened against the fallback.
C26_SocketFollowsRestSwitch ==
  (/\ mounted
   /\ timer = "fired"
   /\ API_BASE = FALLBACK_API_URL
   /\ socks[socketRef].state # "connected")
  => socks[socketRef].url = FALLBACK_API_URL

\* ------------------------------------------------------------------------
\* Properties of the reconciliation
\* ------------------------------------------------------------------------
HasDisaster(d) == \E i \in DOMAIN disasters : disasters[i].id = d

\* C4: a 'disaster_updated' event with action 'create' leaves the local list
\* unchanged when a disaster of that id is already in it, and prepends the
\* disaster otherwise.
C4_CreateIdempotent ==
  [][\A d \in Disasters :
        OnDisasterUpdated("create", Disaster(d, "event")) =>
          IF HasDisaster(d)
            THEN disasters' = disasters
            ELSE disasters' = <<Disaster(d, "event")>> \o disasters]_vars

\* C11: a 'disaster_updated' event with action 'update' replaces the entries of
\* the event's id in place: same length, same order of ids, and a list without
\* that id is left unchanged.
C11_UpdateInPlace ==
  [][\A d \in Disasters :
        OnDisasterUpdated("update", Disaster(d, "event")) =>
          /\ Len(disasters') = Len(disasters)
          /\ \A i \in DOMAIN disasters :
               /\ disasters'[i].id = disasters[i].id
               /\ disasters'[i] = IF disasters[i].id = d THEN Disaster(d, "event")
                                                         ELSE disasters[i]
          /\ ~HasDisaster(d) => disasters' = disasters]_vars

\* The list loaded as [d1, d2] after an update event of d2: d2 replaced in place.
C11_Witness ==
  /\ lastEvent = [kind |-> "update", disaster_id |-> "d2"]
  /\ disasters = <<Disaster("d1", "rest"), Disaster("d2", "event")>>

\* C12: a 'disaster_updated' event with action 'delete' and id X removes the
\* entries of id X from the local list; a list without X is left unchanged.
C12_DeleteRemoves ==
  [][\A d \in Disasters :
        (/\ OnDisasterUpdated("delete", Disaster(d, "event"))
         /\ lastEvent' = [kind |-> "delete", disaster_id |-> d])
        => disasters' = SelectSeq(disasters, LAMBDA x : x.id # d)]_vars

\* Every message the client emitted on its socket has been handled: nothing
\* is in flight (the client emits join_disaster only).
Delivered == \A d \in joinsEmitted[1] : rooms[ClientConn][d] > 0

\* C23: the local list of disasters never holds two entries with the same id,
\* however the list loads and the 'disaster_updated' create events interleave.
C23_NoDuplicateIds ==
  \A i, j \in DOMAIN disasters : i # j => disasters[i].id # disasters[j].id

\* The client holds a connected socket and d is selected.
ConnectedWith(d) == socks[socketRef].state = "connected" /\ selectedDisaster = d

\* C25: whenever the client holds a connected socket while disaster d is
\* selected, its connection is eventually in d's room (unless the selection
\* changes or the connection is lost first).
C25_ResubscribedAfterReconnect ==
  \A d \in Disasters :
    ConnectedWith(d) ~> (~ConnectedWith(d) \/ rooms[LiveConn][d] > 0)

\* C17: the client's connection is subscribed to at most one disaster: once
\* nothing is in flight, it is in no room but the one of the selected disaster.
C17_OneScopeAtATime ==
  Delivered => \A d \in Disasters : rooms[ClientConn][d] > 0 => d = selectedDisaster

\* The requests of a loadDisasterDetails run that failed on both endpoints.
FailedOf(outcomes) == Cardinality({i \in DOMAIN outcomes : outcomes[i] = "failed"})

\* C19: a REST operation whose apiCall fails on both endpoints adds exactly one
\* notification: one for a failed load of the disaster list, and one for each
\* failed request of the details of a disaster (social media, resources,
\* reports, analytics).
C19_OneNotificationPerFailure ==
  [][/\ \A p \in pending, data \in DisasterLists :
          LoadDisastersSettles(p, "failed", data) =>
            Len(notifLog') = Len(notifLog) + 1
     /\ \A p \in pending, oSocial, oResources, oReports, oAnalytics \in ApiOutcomes :
          LoadDisasterDetailsSettles(p, oSocial, oResources, oReports, oAnalytics) =>
            Len(notifLog') =
              Len(notifLog) + FailedOf(<<oSocial, oResources, oReports, oAnalytics>>)]_vars

\* C20: the notifications of the list have pairwise distinct ids, and the
\* dismissal timer of a notification removes that notification and no other.
C20_DistinctIdsOwnRemoval ==
  [][/\ \A i, j \in DOMAIN notifications' :
          i # j => notifications'[i].id # notifications'[j].id
     /\ Dismiss => Len(notifications') = Len(notifications) - 1]_vars

\* The disaster an entry of the detail lists belongs to is the selected one
\* (or none, for the entries that carry no disaster).
OfSelected(e) == e.disaster_id \in {selectedDisaster, NoDisaster}

\* C24: once no detail request is in flight, the visible social media,
\* resources, reports and analytics are those of the selected disaster,
\* whatever order the responses arrived in.
C24_DetailsOfSelected ==
  (/\ selectedDisaster # NoDisaster
   /\ \A p \in pending : p.op # "details")
  => /\ \A i \in DOMAIN socialMedia : OfSelected(socialMedia[i])
     /\ \A i \in DOMAIN resources : OfSelected(resources[i])
     /\ \A i \in DOMAIN reports : OfSelected(reports[i])
     /\ OfSelected(analytics)

\* C9: while a disaster is selected, a 'report_created' or
\* 'social_media_updated' event of another disaster changes neither the
\* reports, nor the social-media list, nor the notifications.
C9_ForeignEventsDiscarded ==
  [][\A d \in Disasters, rid \in ReportIds :
        (/\ selectedDisaster \notin {NoDisaster, d}
         /\ \/ /\ OnReportCreated(d, EventReport(d, rid))
               /\ lastEvent' = [kind |-> "report_created", disaster_id |-> d]
            \/ /\ OnSocialMediaUpdated(d, EventSocial(d))
               /\ lastEvent' = [kind |-> "social_media_updated", disaster_id |-> d])
        => UNCHANGED <<reports, socialMedia, notifications, notifLog>>]_vars

\* With d1 selected and its reports loaded, a 'report_created' event of d2 was
\* handled, and the list shows the reports of d1.
C9_Witness ==
  /\ selectedDisaster = "d1"
  /\ lastEvent = [kind |-> "report_created", disaster_id |-> "d2"]
  /\ reports = RestReports("d1")
  /\ socialMedia = RestSocial("d1")

\* C10: a 'report_created' event of the selected disaster prepends its report
\* to the local reports, and a 'social_media_updated' event of the selected
\* disaster replaces the local social-media list by its data.
C10_SelectedEventsApplied ==
  [][\A d \in Disasters, rid \in ReportIds :
        /\ (/\ selectedDisaster = d
            /\ OnReportCreated(d, EventReport(d, rid))
            /\ lastEvent' = [kind |-> "report_created", disaster_id |-> d])
           => reports' = <<EventReport(d, rid)>> \o reports
        /\ (/\ selectedDisaster = d
            /\ OnSocialMediaUpdated(d, EventSocial(d))
            /\ lastEvent' = [kind |-> "social_media_updated", disaster_id |-> d])
           => socialMedia' = EventSocial(d)]_vars

====
